---- MODULE Spec2Model ----
(***************************************************************************)
(* Model of fauxcable's add_posters.py: the poster enrichment pipeline     *)
(* main() with its cache file, its output document, the TVmaze lookup and  *)
(* the Jellyfin refresh.                                                   *)
(*                                                                         *)
(* Text is a sequence of one-character strings, so that strip(), lower()   *)
(* and the regular expressions of the source are computed character by     *)
(* character.  "^N", "^e", "^w" stand for the superscript letters U+1D3A,  *)
(* U+1D49, U+02B7 and "endash" for U+2013.                                 *)
(*                                                                         *)
(* Granularity: one Python statement that touches a file is one step       *)
(* (save_cache and tree.write are separate steps); the body of the loop    *)
(* for one programme is one step, since it only changes memory that an     *)
(* external termination discards.                                          *)
(***************************************************************************)
EXTENDS Integers, Sequences, FiniteSets, TLC

(***************************************************************************)
(* Bounds of the model.                                                    *)
(***************************************************************************)
MaxProgs == 2
MaxBatch == 2
MaxRuns == 2

(***************************************************************************)
(* Characters and strings.                                                 *)
(***************************************************************************)
NULL == "null"

Whitespace == {" ", "\n", "\t"}

Upper ==
    <<"A", "B", "C", "D", "E", "F", "G", "H", "I", "J", "K", "L", "M",
      "N", "O", "P", "Q", "R", "S", "T", "U", "V", "W", "X", "Y", "Z">>

Lower ==
    <<"a", "b", "c", "d", "e", "f", "g", "h", "i", "j", "k", "l", "m",
      "n", "o", "p", "q", "r", "s", "t", "u", "v", "w", "x", "y", "z">>

lowerChar(c) ==
    IF \E k \in 1..Len(Upper) : Upper[k] = c
    THEN Lower[CHOOSE k \in 1..Len(Upper) : Upper[k] = c]
    ELSE c

lower(s) == [k \in 1..Len(s) |-> lowerChar(s[k])]

RECURSIVE lstrip(_)
lstrip(s) ==
    IF s # <<>> /\ Head(s) \in Whitespace THEN lstrip(Tail(s)) ELSE s

RECURSIVE rstrip(_)
rstrip(s) ==
    IF s # <<>> /\ s[Len(s)] \in Whitespace
    THEN rstrip(SubSeq(s, 1, Len(s) - 1))
    ELSE s

strip(s) == rstrip(lstrip(s))

RECURSIVE Join(_)
Join(s) == IF s = <<>> THEN "" ELSE Head(s) \o Join(Tail(s))

RECURSIVE Flatten(_)
Flatten(ss) == IF ss = <<>> THEN <<>> ELSE Head(ss) \o Flatten(Tail(ss))

(***************************************************************************)
(* normalize_title, lines 96-102.                                          *)
(***************************************************************************)
nfkdChar(c) ==
    CASE c = "^N" -> <<"N">>
      [] c = "^e" -> <<"e">>
      [] c = "^w" -> <<"w">>
      [] OTHER -> <<c>>

nfkd(s) == Flatten([k \in 1..Len(s) |-> nfkdChar(s[k])])

\* [\s\-–]
MarkerSeparator == Whitespace \cup {"-", "endash"}

\* \(?(?:new|NEW)\)? under re.IGNORECASE
IsNewMarker(u) ==
    lower(u) \in { <<"n", "e", "w">>,
                   <<"(", "n", "e", "w">>,
                   <<"n", "e", "w", ")">>,
                   <<"(", "n", "e", "w", ")">> }

\* u, a whole slice of the text, is matched by [\s\-–]*\(?(?:new)\)?
MatchesMarker(u) ==
    \E j \in 0..Len(u) :
        /\ \A k \in 1..j : u[k] \in MarkerSeparator
        /\ IsNewMarker(SubSeq(u, j + 1, Len(u)))

\* "$" matches at the end of the text and before a newline that ends it
DollarEnd(s) == IF s # <<>> /\ s[Len(s)] = "\n" THEN Len(s) - 1 ELSE Len(s)

\* re.sub(pattern, '', s): the leftmost match ending at "$" is removed
strip_new_marker(s) ==
    LET e == DollarEnd(s)
        starts == {k \in 1..e : MatchesMarker(SubSeq(s, k, e))}
    IN  IF starts = {} THEN s
        ELSE LET k == CHOOSE m \in starts : \A n \in starts : m <= n
             IN  SubSeq(s, 1, k - 1) \o SubSeq(s, e + 1, Len(s))

replace_newlines(s) == [k \in 1..Len(s) |-> IF s[k] = "\n" THEN " " ELSE s[k]]

\* re.sub(r'\s{2,}', ' ', s)
RECURSIVE collapse_spaces(_)
collapse_spaces(s) ==
    IF s = <<>> THEN <<>>
    ELSE IF Len(s) >= 2 /\ s[1] \in Whitespace /\ s[2] \in Whitespace
         THEN <<" ">> \o collapse_spaces(lstrip(s))
         ELSE <<Head(s)>> \o collapse_spaces(Tail(s))

normalize_title(title) ==
    collapse_spaces(strip(replace_newlines(strip_new_marker(nfkd(title)))))

(***************************************************************************)
(* GENERIC_CATEGORY_MAP and GENERIC_UNKNOWN, lines 40-75.                  *)
(***************************************************************************)
GENERIC_CATEGORY_MAP ==
    ("news" :> "generic_news.png") @@
    ("newsmagazine" :> "generic_news.png") @@
    ("weather" :> "generic_weather.png") @@
    ("politics" :> "generic_news.png") @@
    ("public affairs" :> "generic_publicaccess.png") @@
    ("religious" :> "generic_religious.png") @@
    ("religion" :> "generic_religious.png") @@
    ("gospel" :> "generic_religious.png") @@
    ("astrological guidance" :> "generic_religious.png") @@
    ("shopping" :> "generic_infomercial.png") @@
    ("infomercial" :> "generic_infomercial.png") @@
    ("consumer" :> "generic_infomercial.png") @@
    ("paid programming" :> "generic_paidprogramming.png") @@
    ("auction" :> "generic_infomercial.png") @@
    ("community" :> "generic_publicaccess.png") @@
    ("fundraiser" :> "generic_publicaccess.png") @@
    ("local event" :> "generic_publicaccess.png") @@
    ("parade" :> "generic_publicaccess.png") @@
    ("town hall" :> "generic_publicaccess.png") @@
    ("off air" :> "generic_unknown.png") @@
    ("tba" :> "generic_unknown.png") @@
    ("special" :> "generic_unknown.png") @@
    ("event" :> "generic_unknown.png")

GENERIC_UNKNOWN == "generic_unknown.png"

\* CONFIG["paths"]["assets"], line 15
ASSETS == "assets"

\* str(ASSETS / name), lines 186 and 191
asset_path(name) == ASSETS \o "/" \o name

(***************************************************************************)
(* A programme element: its first <title> (has_title, title; a title with  *)
(* no text has title = <<>>), the texts of its <category> children in      *)
(* document order (<<>> for a category with no text) and the src of its    *)
(* <icon> children.                                                        *)
(***************************************************************************)
Programme(has_title, title, cats, icons) ==
    [has_title |-> has_title, title |-> title, cats |-> cats, icons |-> icons]

\* prog.find("icon") is not None, lines 159, 182, 190
find_icon(prog) == prog.icons # <<>>

\* ET.SubElement(prog, "icon", {"src": src}), lines 166, 174, 186, 191
SubElement_icon(prog, src) == [prog EXCEPT !.icons = Append(@, src)]

\* line 183: [(c.text or "").strip().lower() for c in ... if c.text]
categories_of(prog) ==
    LET kept == SelectSeq(prog.cats, LAMBDA c : c # <<>>)
    IN  [k \in 1..Len(kept) |-> Join(lower(strip(kept[k])))]

\* a mapper that lets the last matching category win
generic_match_last(categories) ==
    LET hits == {k \in 1..Len(categories) : categories[k] \in DOMAIN GENERIC_CATEGORY_MAP}
    IN  IF hits = {} THEN NULL
        ELSE GENERIC_CATEGORY_MAP[categories[CHOOSE k \in hits : \A m \in hits : m <= k]]

\* line 184: next((MAP.get(c) for c in categories if c in MAP), None)
generic_match(categories) ==
    LET hits == {k \in 1..Len(categories) : categories[k] \in DOMAIN GENERIC_CATEGORY_MAP}
    IN  IF hits = {} THEN NULL
        ELSE GENERIC_CATEGORY_MAP[categories[CHOOSE k \in hits : \A m \in hits : k <= m]]

\* lines 181-192: the generic and the 'unknown' fallback
fallback_always(prog) ==
    LET m == generic_match(categories_of(prog))
        p1 == IF m # NULL THEN SubElement_icon(prog, asset_path(m)) ELSE prog
    IN  SubElement_icon(p1, asset_path(GENERIC_UNKNOWN))

fallback(prog) ==
    LET m == generic_match(categories_of(prog))
        p1 == IF ~find_icon(prog) /\ m # NULL
              THEN SubElement_icon(prog, asset_path(m))
              ELSE prog
    IN  IF ~find_icon(p1)
        THEN SubElement_icon(p1, asset_path(GENERIC_UNKNOWN))
        ELSE p1

(***************************************************************************)
(* The cache: a function from normalized titles to a URL or NULL.          *)
(***************************************************************************)
EmptyCache == [t \in {} |-> NULL]

NoFile == [exists |-> FALSE, data |-> EmptyCache]

NoDocument == [exists |-> FALSE, doc |-> <<>>]

\* a load that starts every run with an empty cache
load_cache_fresh(file) == EmptyCache

\* lines 80-87
load_cache(file) == IF file.exists THEN file.data ELSE EmptyCache

\* a save that leaves out the entries without a URL
save_cache_without_null(cache) ==
    [exists |-> TRUE,
     data |-> [t \in {k \in DOMAIN cache : cache[k] # NULL} |-> cache[t]]]

\* lines 89-91
save_cache(cache) == [exists |-> TRUE, data |-> cache]

\* a store that records only the lookups that found a URL
cache_store_found_only(cache, title, poster_url) ==
    IF poster_url # NULL THEN (title :> poster_url) @@ cache ELSE cache

\* a store that replaces the cache by the one new entry
cache_store_alone(cache, title, poster_url) == (title :> poster_url)

\* line 172: cache[title] = poster_url
cache_store(cache, title, poster_url) == (title :> poster_url) @@ cache

\* tree.write(OUTPUT, ...), lines 197 and 209
tree_write(tree) == [exists |-> TRUE, doc |-> tree]

\* a start that always parses the original input
source_path_input(output, input) == input

\* line 134 and ET.parse, line 137
source_path(output, input) == IF output.exists THEN output.doc ELSE input

\* a cache test that treats a cached "no result" as a miss
in_cache_unless_null(title, cache) == title \in DOMAIN cache /\ cache[title] # NULL

\* line 163: title in cache
in_cache(title, cache) == title \in DOMAIN cache

\* a checkpoint test that is off by one
is_checkpoint_early(processed, batch_size) == (processed + 1) % batch_size = 0

\* line 195: processed % BATCH_SIZE == 0
is_checkpoint(processed, batch_size) == processed % batch_size = 0

(***************************************************************************)
(* lookup_tvmaze_single, lines 107-114.  A response is what requests.get   *)
(* does: raise (timeout, network error) or return a status and, for 200,   *)
(* the image object of the body (original, medium; NULL when absent).      *)
(***************************************************************************)
Response(exc, status, original, medium) ==
    [exc |-> exc, status |-> status, original |-> original, medium |-> medium]

\* what the server can answer for a title: no image or a 404 for any title,
\* both images or a timeout for "A", image fields that are empty strings
\* for "Local Parade Coverage", and only the medium image or a network
\* error for the other titles
Responses(title) ==
    { Response("", 200, NULL, NULL),
      Response("", 404, NULL, NULL) } \cup
    CASE title = "A" ->
            { Response("", 200, "http://tvmaze/original.jpg", "http://tvmaze/medium.jpg"),
              Response("Timeout", 0, NULL, NULL) }
      [] title = "Local Parade Coverage" ->
            { Response("", 200, "", ""),
              Response("", 200, "", "http://tvmaze/medium.jpg"),
              Response("ConnectionError", 0, NULL, NULL) }
      [] OTHER ->
            { Response("", 200, NULL, "http://tvmaze/medium.jpg"),
              Response("ConnectionError", 0, NULL, NULL) }

\* a truth test that takes the empty string for a URL
truthy_unless_none(v) == v # NULL

\* "if url:", "if poster_url:" and the left operand of "or": None and the
\* empty string are false
truthy(v) == v # NULL /\ v # ""

\* img.get("original") or img.get("medium"), None for a non-200 status
lookup_result(r) ==
    IF r.status = 200
    THEN IF truthy(r.original) THEN r.original ELSE r.medium
    ELSE NULL

\* requests.get raised: nothing in lookup_tvmaze_single or main catches it
lookup_raises(r) == r.exc # ""

\* a non-200 response, a timeout or a network error
IsLookupFailure(r) == r.exc # "" \/ r.status # 200

(***************************************************************************)
(* The state.                                                              *)
(*   inputFile, outputFile, cacheFile   INPUT, OUTPUT and CACHE on disk    *)
(*   batch_size                         BATCH_SIZE of config.yaml          *)
(*   pc, tree, cache, i, processed      main()'s position and locals       *)
(* and what an observer of the runs records:                               *)
(*   run          the number of runs of main() started                     *)
(*   aborts       the number of runs that an exception ended               *)
(*   output0, cachefile0   OUTPUT and CACHE as the current run found them  *)
(*   lookups      the calls of lookup_tvmaze_single of the current run     *)
(*   calls        how often each title was looked up, over all runs        *)
(*   sleeps       the time.sleep(0.2) calls of the current run             *)
(*   cache_saves, doc_writes   save_cache and tree.write calls of the run  *)
(*   refreshes    the outcomes of refresh_jellyfin calls of the run        *)
(*   persist_id, cache_gen, doc_gen   the number of persists begun, and    *)
(*                the persist that last wrote each of the two files        *)
(*   prev         how the run before the current one ended                 *)
(* and what is given from outside and never changes:                       *)
(*   tvmaze       the responses the TVmaze server can give for each title  *)
(*   cachefile_origin   CACHE as it was before the first run               *)
(*   norm         a text and the results of applying normalize_title to    *)
(*                it again and again (empty where no text is studied)      *)
(***************************************************************************)
VARIABLES inputFile, outputFile, cacheFile, batch_size,
          pc, tree, cache, i, processed,
          run, aborts, output0, cachefile0, lookups, calls, sleeps,
          cache_saves, doc_writes, refreshes,
          persist_id, cache_gen, doc_gen,
          prev, tvmaze, cachefile_origin, norm

vars == <<inputFile, outputFile, cacheFile, batch_size,
          pc, tree, cache, i, processed,
          run, aborts, output0, cachefile0, lookups, calls, sleeps,
          cache_saves, doc_writes, refreshes,
          persist_id, cache_gen, doc_gen,
          prev, tvmaze, cachefile_origin, norm>>

disk == <<inputFile, outputFile, cacheFile, batch_size>>
locals == <<tree, cache, i, processed>>
gens == <<persist_id, cache_gen, doc_gen>>
given == <<tvmaze, cachefile_origin, norm>>

Running == {"loop", "ckpt_cache", "ckpt_write", "final_write", "refresh"}
Stopped == {"idle", "done", "killed", "aborted"}

\* the document and the cache the current run loaded, lines 134-143
doc0 == source_path(output0, inputFile)
cache0 == load_cache(cachefile0)

(***************************************************************************)
(* The inputs: guide documents of up to MaxProgs programmes and the cache  *)
(* files an earlier use of the program can have left.                      *)
(***************************************************************************)
TitleA == <<"A">>
TitleANew == <<"A", " ", "^N", "^e", "^w">>
TitleB == <<"B">>
TitleBlank == <<" ">>

CatNewsPadded == <<" ", "N", "e", "w", "s", " ">>
CatWeather == <<"w", "e", "a", "t", "h", "e", "r">>
CatSports == <<"s", "p", "o", "r", "t", "s">>
CatParade == <<"P", "A", "R", "A", "D", "E">>

Programmes ==
    { Programme(FALSE, <<>>, <<CatWeather>>, <<>>),
      Programme(TRUE, TitleBlank, <<>>, <<>>),
      Programme(TRUE, TitleA, <<CatSports>>, <<>>),
      Programme(TRUE, TitleANew, <<CatNewsPadded, CatWeather>>, <<>>),
      Programme(TRUE, TitleB, <<CatSports, <<>>, CatParade, CatWeather>>, <<>>),
      Programme(TRUE, TitleB, <<CatWeather>>, <<"http://guide/old.png">>) }

\* the programme of the end-to-end scenario, "Local Parade Coverage" with
\* the category "parade", and one of the same title without a category
TitleParade ==
    <<"L", "o", "c", "a", "l", " ", "P", "a", "r", "a", "d", "e", " ",
      "C", "o", "v", "e", "r", "a", "g", "e">>

ScenarioProgrammes ==
    { Programme(TRUE, TitleParade, <<lower(CatParade)>>, <<>>),
      Programme(TRUE, TitleParade, <<>>, <<>>) }

\* lines 152 and 156: normalize_title(title_raw), tabulated once for the
\* title texts of the documents
TitleTexts == {p.title : p \in Programmes \cup ScenarioProgrammes}

NormalizedTitle == [t \in TitleTexts |-> Join(normalize_title(strip(t)))]

title_of(prog) == NormalizedTitle[prog.title]

\* the titles lookup_tvmaze_single can be called with
Titles == {NormalizedTitle[t] : t \in TitleTexts}

\* the server answers any of Responses(title)
AnyResponse == {[t \in Titles |-> Responses(t)]}

CachedUrl == "http://cache/poster.jpg"

InitialCaches ==
    { NoFile,
      save_cache("A" :> CachedUrl),
      save_cache(("A" :> NULL) @@ ("B" :> CachedUrl)) }

Documents(kinds, n) == UNION {[1..m -> kinds] : m \in 0..n}

InitWith(documents, cachefiles, servers, texts) ==
    /\ inputFile \in documents
    /\ outputFile = NoDocument
    /\ cacheFile \in cachefiles
    /\ batch_size \in 1..MaxBatch
    /\ pc = "idle"
    /\ tree = <<>>
    /\ cache = EmptyCache
    /\ i = 0
    /\ processed = 0
    /\ run = 0
    /\ aborts = 0
    /\ output0 = NoDocument
    /\ cachefile0 = NoFile
    /\ lookups = <<>>
    /\ calls = [t \in {} |-> 0]
    /\ sleeps = 0
    /\ cache_saves = 0
    /\ doc_writes = 0
    /\ refreshes = <<>>
    /\ persist_id = 0
    /\ cache_gen = 0
    /\ doc_gen = 0
    /\ prev = "none"
    /\ tvmaze \in servers
    /\ cachefile_origin = cacheFile
    /\ norm \in texts

Init == InitWith(Documents(Programmes, MaxProgs), InitialCaches, AnyResponse, {<<>>})

(***************************************************************************)
(* main(), lines 132-212.                                                  *)
(***************************************************************************)
\* lines 133-145: parse OUTPUT if it exists, else INPUT; load the cache
Start ==
    /\ pc \in Stopped
    /\ run < MaxRuns
    /\ run' = run + 1
    /\ output0' = outputFile
    /\ cachefile0' = cacheFile
    /\ tree' = source_path(outputFile, inputFile)
    /\ cache' = load_cache(cacheFile)
    /\ i' = 1
    /\ processed' = 0
    /\ sleeps' = 0
    /\ cache_saves' = 0
    /\ doc_writes' = 0
    /\ refreshes' = <<>>
    /\ lookups' = <<>>
    /\ prev' = pc
    /\ pc' = "loop"
    /\ UNCHANGED <<disk, aborts, calls, gens, given>>

\* a skip test that forgets the icon check of line 159
skipped_ignoring_icon(prog) ==
    \/ ~prog.has_title
    \/ strip(prog.title) = <<>>

\* a skip test that forgets the blank-title check of line 153
skipped_ignoring_blank(prog) ==
    \/ ~prog.has_title
    \/ find_icon(prog)

\* lines 148-160: no title element, a blank title or an icon already there
skipped(prog) ==
    \/ ~prog.has_title
    \/ strip(prog.title) = <<>>
    \/ find_icon(prog)

\* lines 147-160: continue
Skip ==
    /\ pc = "loop"
    /\ i <= Len(tree)
    /\ skipped(tree[i])
    /\ i' = i + 1
    /\ UNCHANGED <<given, prev, disk, pc, tree, cache, processed, run, aborts, output0, cachefile0,
                   lookups, calls, sleeps, cache_saves, doc_writes, refreshes, gens>>

\* the state after line 194-195 for a programme that was processed
after_processed(n) == IF is_checkpoint(n, batch_size) THEN "ckpt_cache" ELSE "loop"

\* lines 163-168, then 181-195: the title is a key of the cache
CacheHit ==
    /\ pc = "loop"
    /\ i <= Len(tree)
    /\ ~skipped(tree[i])
    /\ in_cache(title_of(tree[i]), cache)
    /\ LET url == cache[title_of(tree[i])]
           p1 == IF truthy(url) THEN SubElement_icon(tree[i], url) ELSE tree[i]
       IN  tree' = [tree EXCEPT ![i] = fallback(p1)]
    /\ processed' = processed + 1
    /\ pc' = after_processed(processed + 1)
    /\ i' = i + 1
    /\ UNCHANGED <<given, prev, disk, cache, run, aborts, output0, cachefile0, lookups, calls, sleeps,
                   cache_saves, doc_writes, refreshes, gens>>

\* one more call of lookup_tvmaze_single(title)
counted(c, title) ==
    IF title \in DOMAIN c
    THEN [c EXCEPT ![title] = @ + 1]
    ELSE (title :> 1) @@ c

\* lines 169-179, then 181-195: lookup_tvmaze_single returns
Lookup ==
    /\ pc = "loop"
    /\ i <= Len(tree)
    /\ ~skipped(tree[i])
    /\ ~in_cache(title_of(tree[i]), cache)
    /\ \E r \in tvmaze[title_of(tree[i])] :
        /\ ~lookup_raises(r)
        /\ lookups' = Append(lookups, [title |-> title_of(tree[i]), response |-> r])
        /\ calls' = counted(calls, title_of(tree[i]))
        /\ LET poster_url == lookup_result(r)
               p1 == IF truthy(poster_url)
                     THEN SubElement_icon(tree[i], poster_url)
                     ELSE tree[i]
           IN  /\ cache' = cache_store(cache, title_of(tree[i]), poster_url)
               /\ tree' = [tree EXCEPT ![i] = fallback(p1)]
    /\ sleeps' = sleeps + 1
    /\ processed' = processed + 1
    /\ pc' = after_processed(processed + 1)
    /\ i' = i + 1
    /\ UNCHANGED <<given, prev, disk, run, aborts, output0, cachefile0,
                   cache_saves, doc_writes, refreshes, gens>>

\* line 171 when requests.get raises: the exception leaves main()
LookupRaises ==
    /\ pc = "loop"
    /\ i <= Len(tree)
    /\ ~skipped(tree[i])
    /\ ~in_cache(title_of(tree[i]), cache)
    /\ \E r \in tvmaze[title_of(tree[i])] :
        /\ lookup_raises(r)
        /\ lookups' = Append(lookups, [title |-> title_of(tree[i]), response |-> r])
        /\ calls' = counted(calls, title_of(tree[i]))
    /\ pc' = "aborted"
    /\ aborts' = aborts + 1
    /\ tree' = <<>>
    /\ cache' = EmptyCache
    /\ i' = 0
    /\ processed' = 0
    /\ UNCHANGED <<given, prev, disk, run, output0, cachefile0, sleeps,
                   cache_saves, doc_writes, refreshes, gens>>

\* line 196: save_cache(cache) at a checkpoint
CheckpointSaveCache ==
    /\ pc = "ckpt_cache"
    /\ cacheFile' = save_cache(cache)
    /\ cache_saves' = cache_saves + 1
    /\ persist_id' = persist_id + 1
    /\ cache_gen' = persist_id + 1
    /\ pc' = "ckpt_write"
    /\ UNCHANGED <<given, prev, inputFile, outputFile, batch_size, locals, run, aborts, output0,
                   cachefile0, lookups, calls, sleeps, doc_writes, refreshes, doc_gen>>

\* line 197: tree.write(OUTPUT) at a checkpoint
CheckpointWrite ==
    /\ pc = "ckpt_write"
    /\ outputFile' = tree_write(tree)
    /\ doc_writes' = doc_writes + 1
    /\ doc_gen' = persist_id
    /\ pc' = "loop"
    /\ UNCHANGED <<given, prev, inputFile, cacheFile, batch_size, locals, run, aborts, output0,
                   cachefile0, lookups, calls, sleeps, cache_saves, refreshes,
                   persist_id, cache_gen>>

\* line 208: the loop is over, save_cache(cache)
FinalSaveCache ==
    /\ pc = "loop"
    /\ i > Len(tree)
    /\ cacheFile' = save_cache(cache)
    /\ cache_saves' = cache_saves + 1
    /\ persist_id' = persist_id + 1
    /\ cache_gen' = persist_id + 1
    /\ pc' = "final_write"
    /\ UNCHANGED <<given, prev, inputFile, outputFile, batch_size, locals, run, aborts, output0,
                   cachefile0, lookups, calls, sleeps, doc_writes, refreshes, doc_gen>>

\* the position after the final write, lines 209-212
after_final_write_done == "done"

after_final_write == "refresh"

\* line 209: tree.write(OUTPUT)
FinalWrite ==
    /\ pc = "final_write"
    /\ outputFile' = tree_write(tree)
    /\ doc_writes' = doc_writes + 1
    /\ doc_gen' = persist_id
    /\ pc' = after_final_write
    /\ UNCHANGED <<given, prev, inputFile, cacheFile, batch_size, locals, run, aborts, output0,
                   cachefile0, lookups, calls, sleeps, cache_saves, refreshes,
                   persist_id, cache_gen>>

\* refresh_jellyfin, lines 116-127: requests.post returns a status or raises;
\* what is logged is the only effect
RefreshOutcomes == {"200", "204", "500", "ConnectionError"}

refresh_jellyfin(outcome) == IF outcome \in {"200", "204"} THEN "info" ELSE "warning"

\* a refresh that lets the exception of requests.post through
refresh_raises_on_error(outcome) == outcome = "ConnectionError"

\* lines 117 and 126: "except Exception" catches whatever the call raises
refresh_raises(outcome) == FALSE

\* line 212
Refresh ==
    /\ pc = "refresh"
    /\ \E outcome \in RefreshOutcomes :
        /\ refreshes' = Append(refreshes, refresh_jellyfin(outcome))
        /\ pc' = IF refresh_raises(outcome) THEN "aborted" ELSE "done"
        /\ aborts' = IF refresh_raises(outcome) THEN aborts + 1 ELSE aborts
    /\ UNCHANGED <<given, prev, disk, locals, run, output0, cachefile0, lookups, calls,
                   sleeps, cache_saves, doc_writes, gens>>

\* the process is terminated externally: its memory is gone, the files stay
Kill ==
    /\ pc \in Running
    /\ pc' = "killed"
    /\ tree' = <<>>
    /\ cache' = EmptyCache
    /\ i' = 0
    /\ processed' = 0
    /\ UNCHANGED <<given, prev, disk, run, aborts, output0, cachefile0, lookups, calls, sleeps,
                   cache_saves, doc_writes, refreshes, gens>>

Next ==
    \/ Start
    \/ Skip
    \/ CacheHit
    \/ Lookup
    \/ LookupRaises
    \/ CheckpointSaveCache
    \/ CheckpointWrite
    \/ FinalSaveCache
    \/ FinalWrite
    \/ Refresh
    \/ Kill

Spec == Init /\ [][Next]_vars

(***************************************************************************)
(* The same program on longer documents of fewer kinds of programme, for   *)
(* the checkpoint arithmetic.                                              *)
(***************************************************************************)
MaxBatchProgs == 5

BatchProgrammes ==
    { Programme(TRUE, TitleA, <<CatSports>>, <<>>),
      Programme(TRUE, TitleB, <<CatWeather>>, <<"http://guide/old.png">>) }

InitBatch ==
    InitWith(Documents(BatchProgrammes, MaxBatchProgs), {NoFile}, AnyResponse, {<<>>})

SpecBatch == InitBatch /\ [][Next]_vars

(***************************************************************************)
(* The same program on the documents of the end-to-end scenario, with no   *)
(* cache file or one that holds an empty string or a URL for the title.    *)
(***************************************************************************)
MaxScenarioProgs == 2

ScenarioCaches ==
    { NoFile,
      save_cache("Local Parade Coverage" :> ""),
      save_cache("Local Parade Coverage" :> CachedUrl) }

InitScenario ==
    InitWith(Documents(ScenarioProgrammes, MaxScenarioProgs), ScenarioCaches,
             AnyResponse, {<<>>})

SpecScenario == InitScenario /\ [][Next]_vars

(***************************************************************************)
(* The same program against a server that gives the same response for the  *)
(* same title every time: one response for "A" and one for "B", on         *)
(* documents of the programmes that can be looked up.                      *)
(***************************************************************************)
SameEveryTime ==
    { [t \in Titles |->
        IF t = "A" THEN {ra}
        ELSE IF t = "B" THEN {rb}
        ELSE {Response("", 200, NULL, NULL)}] :
      ra \in Responses("A"), rb \in Responses("B") }

MaxDetProgs == 2

DetProgrammes ==
    { Programme(TRUE, TitleA, <<CatSports>>, <<>>),
      Programme(TRUE, TitleANew, <<CatNewsPadded, CatWeather>>, <<>>),
      Programme(TRUE, TitleB, <<CatSports, <<>>, CatParade, CatWeather>>, <<>>) }

DetCaches == {NoFile, save_cache("A" :> CachedUrl)}

InitDet == InitWith(Documents(DetProgrammes, MaxDetProgs), DetCaches, SameEveryTime, {<<>>})

SpecDet == InitDet /\ [][Next]_vars

\* main() run to its end without interruption, lines 147-205: the programmes
\* done so far, the ones to come and the cache; aborted when a lookup raises
RECURSIVE Uninterrupted(_, _, _)
Uninterrupted(done, rest, c) ==
    IF rest = <<>> THEN [aborted |-> FALSE, doc |-> done, cache |-> c]
    ELSE LET prog == Head(rest)
             title == title_of(prog)
         IN  IF skipped(prog)
             THEN Uninterrupted(Append(done, prog), Tail(rest), c)
             ELSE IF in_cache(title, c)
             THEN LET p1 == IF truthy(c[title])
                            THEN SubElement_icon(prog, c[title])
                            ELSE prog
                  IN  Uninterrupted(Append(done, fallback(p1)), Tail(rest), c)
             ELSE LET r == CHOOSE x \in tvmaze[title] : TRUE
                      poster_url == lookup_result(r)
                      p1 == IF truthy(poster_url)
                            THEN SubElement_icon(prog, poster_url)
                            ELSE prog
                  IN  IF lookup_raises(r)
                      THEN [aborted |-> TRUE, doc |-> done, cache |-> c]
                      ELSE Uninterrupted(Append(done, fallback(p1)), Tail(rest),
                                         cache_store(c, title, poster_url))

(***************************************************************************)
(* normalize_title on its own: a text of up to MaxWords words and          *)
(* separators is normalized, and the result is normalized again.           *)
(***************************************************************************)
MaxWords == 5

Words == { <<"A">>, <<" ">>, <<"n", "e", "w">>, <<"(", "N", "E", "W", ")">> }

Texts == {Flatten(ws) : ws \in UNION {[1..m -> Words] : m \in 0..MaxWords}}

InitNorm == InitWith({<<>>}, {NoFile}, AnyResponse, {<<t>> : t \in Texts})

\* title = normalize_title(title), lines 96-102
Normalize ==
    /\ Len(norm) \in 1..2
    /\ norm' = Append(norm, normalize_title(norm[Len(norm)]))
    /\ UNCHANGED <<disk, pc, locals, run, aborts, output0, cachefile0, lookups, calls,
                   sleeps, cache_saves, doc_writes, refreshes, gens, prev, tvmaze,
                   cachefile_origin>>

NextNorm == Normalize

SpecNorm == InitNorm /\ [][NextNorm]_vars

(***************************************************************************)
(* Properties.                                                             *)
(***************************************************************************)
Indices == 1..Len(inputFile)

InRun == pc \in Running \cup {"done"}

\* programme k had a non-blank title and no icon when the current run started
NonSkipped0(k) ==
    /\ doc0[k].has_title
    /\ strip(doc0[k].title) # <<>>
    /\ doc0[k].icons = <<>>

\* the programme under the loop's cursor has a non-blank title and no icon
CursorProcessed ==
    /\ pc = "loop"
    /\ i <= Len(tree)
    /\ i' = i + 1
    /\ tree[i].has_title
    /\ strip(tree[i].title) # <<>>
    /\ tree[i].icons = <<>>

\* C1: after a run that completes, every programme that had a non-blank
\* title and no icon when the run started has exactly one icon, in memory
\* and in the output document.
C1_ExactlyOneIcon ==
    pc = "done" =>
        \A k \in Indices :
            NonSkipped0(k) =>
                /\ Len(tree[k].icons) = 1
                /\ Len(outputFile.doc[k].icons) = 1

\* a completed run in which one programme took a cached URL although its
\* categories match the table, and another fell through to 'unknown'
C1_Witness ==
    /\ pc = "done"
    /\ \E k1, k2 \in Indices :
        /\ NonSkipped0(k1)
        /\ NonSkipped0(k2)
        /\ tree[k1].icons = <<CachedUrl>>
        /\ generic_match(categories_of(doc0[k1])) # NULL
        /\ tree[k2].icons = <<asset_path(GENERIC_UNKNOWN)>>

\* no run so far was ended by an exception
NoRunAborted == aborts = 0

\* C2 as stated: over all runs, each completed or terminated externally, no
\* title is looked up more than once.
C2_LookedUpOnceEver ==
    NoRunAborted => \A t \in DOMAIN calls : calls[t] <= 1

\* C2 as amended: within one run no title is looked up twice, and no title
\* that is a key of the cache file the run loaded is looked up at all.
C2_OncePerRunNeverIfPersisted ==
    /\ \A a, b \in 1..Len(lookups) :
        a # b => lookups[a].title # lookups[b].title
    /\ \A a \in 1..Len(lookups) : lookups[a].title \notin DOMAIN cache0

\* a completed run whose document holds one title twice, looked up once
C2_Witness ==
    /\ pc = "done"
    /\ \E k1, k2 \in Indices :
        /\ k1 < k2
        /\ NonSkipped0(k1)
        /\ NonSkipped0(k2)
        /\ title_of(doc0[k1]) = title_of(doc0[k2])
        /\ \E a \in 1..Len(lookups) : lookups[a].title = title_of(doc0[k1])

\* C3: every lookup failure of the current run (non-200, timeout, network
\* error) left a null entry under the title in the cache, and the run was
\* not aborted.
C3_FailureCachedAsNull ==
    \A a \in 1..Len(lookups) :
        IsLookupFailure(lookups[a].response) =>
            /\ pc # "aborted"
            /\ InRun =>
                /\ lookups[a].title \in DOMAIN cache
                /\ cache[lookups[a].title] = NULL

\* C4: processing a programme whose normalized title is a key of the cache
\* calls no lookup and sleeps not at all, and a title the cache file held as
\* null when the run started is not looked up in the run.
C4_CacheHitNoLookupNoDelay ==
    /\ [][(CursorProcessed /\ title_of(tree[i]) \in DOMAIN cache) =>
            (lookups' = lookups /\ calls' = calls /\ sleeps' = sleeps)]_vars
    /\ [](\A a \in 1..Len(lookups) :
            ~(/\ cachefile0.exists
              /\ lookups[a].title \in DOMAIN cachefile0.data
              /\ cachefile0.data[lookups[a].title] = NULL))

\* a second run that gave an icon to a programme whose title the first run
\* had looked up and cached as null, without a lookup of its own
C4_Witness ==
    /\ run = 2
    /\ InRun
    /\ lookups = <<>>
    /\ sleeps = 0
    /\ \E k \in Indices :
        /\ NonSkipped0(k)
        /\ tree[k].icons # <<>>
        /\ title_of(doc0[k]) \in DOMAIN cache0
        /\ cache0[title_of(doc0[k])] = NULL
        /\ title_of(doc0[k]) \in DOMAIN calls
        /\ calls[title_of(doc0[k])] = 1

\* C5: a programme that has an icon when a run starts is the same in memory
\* throughout the run and in every output document the run writes.
C5_IconedUntouched ==
    InRun =>
        \A k \in Indices :
            doc0[k].icons # <<>> =>
                /\ tree[k] = doc0[k]
                /\ doc_writes > 0 => outputFile.doc[k] = doc0[k]

\* a second completed run over the output of the first, with a programme
\* the input already had an icon for and one the first run gave an icon to
C5_Witness ==
    /\ run = 2
    /\ pc = "done"
    /\ \E k1, k2 \in Indices :
        /\ inputFile[k1].icons # <<>>
        /\ inputFile[k1].has_title
        /\ inputFile[k2].icons = <<>>
        /\ doc0[k2].icons # <<>>

\* C6: the cache and the document are persisted right after every
\* batch_size-th processed programme and once more at the end: in the loop
\* floor(processed / batch_size) persists are complete and the files hold
\* what memory held at the last multiple; a completed run made
\* floor(processed / batch_size) + 1.
C6_PersistsPerBatch ==
    /\ pc = "loop" =>
        /\ doc_writes = processed \div batch_size
        /\ cache_saves = doc_writes
        /\ (processed > 0 /\ processed % batch_size = 0) =>
            (outputFile = tree_write(tree) /\ cacheFile = save_cache(cache))
    /\ pc = "ckpt_cache" =>
        /\ processed > 0
        /\ processed % batch_size = 0
        /\ doc_writes = (processed \div batch_size) - 1
        /\ cache_saves = doc_writes
    /\ pc = "ckpt_write" =>
        /\ processed % batch_size = 0
        /\ doc_writes = (processed \div batch_size) - 1
        /\ cache_saves = doc_writes + 1
    /\ pc = "final_write" =>
        /\ doc_writes = processed \div batch_size
        /\ cache_saves = doc_writes + 1
    /\ pc \in {"refresh", "done"} =>
        /\ doc_writes = (processed \div batch_size) + 1
        /\ cache_saves = doc_writes

\* batch size 2 and 5 processed programmes: 3 persists in a completed run
C6_Witness ==
    /\ pc = "done"
    /\ batch_size = 2
    /\ processed = 5
    /\ doc_writes = 3
    /\ cache_saves = 3

Accounted(k) ==
    LET t == title_of(inputFile[k])
    IN  /\ cacheFile.exists
        /\ t \in DOMAIN cacheFile.data
        /\ cacheFile.data[t] # NULL => outputFile.doc[k].icons = <<cacheFile.data[t]>>

C8_ResumeFromOutput ==
    (InRun /\ output0.exists) =>
        /\ \A k \in Indices :
            output0.doc[k].icons # <<>> => tree[k] = output0.doc[k]
        /\ \A a \in 1..Len(lookups) :
            ~(cachefile0.exists /\ lookups[a].title \in DOMAIN cachefile0.data)

\* a run after a terminated one, completed: it found a programme the
\* terminated run had given an icon to before its checkpoint, and one left
\* without that it processed from the persisted cache
C8_Witness ==
    /\ run = 2
    /\ aborts = 0
    /\ pc = "done"
    /\ output0.exists
    /\ lookups = <<>>
    /\ \E k1, k2 \in Indices :
        /\ inputFile[k1].icons = <<>>
        /\ output0.doc[k1].icons # <<>>
        /\ output0.doc[k2].icons = <<>>
        /\ tree[k2].icons # <<>>
        /\ title_of(inputFile[k2]) \in DOMAIN cachefile0.data

\* C9: refresh_jellyfin is not called while the loop or a persist is under
\* way, is called once in a completed run, and when it is called the final
\* persist is complete: both files hold what memory holds.
C9_RefreshOnceAfterFinalPersist ==
    /\ [](pc \in Running => refreshes = <<>>)
    /\ [](pc = "done" => Len(refreshes) = 1)
    /\ [][refreshes' # refreshes /\ refreshes' # <<>> =>
            /\ i > Len(tree)
            /\ outputFile = tree_write(tree)
            /\ cacheFile = save_cache(cache)
            /\ doc_writes = (processed \div batch_size) + 1
            /\ cache_saves = doc_writes]_vars

\* a completed run that changed no programme of a non-empty document
C9_Witness ==
    /\ pc = "done"
    /\ Len(refreshes) = 1
    /\ processed = 0
    /\ tree # <<>>
    /\ tree = doc0

\* the asset of the first category text, in document order, that is a key
\* of the table once trimmed and lowercased; the 'unknown' asset if none is
RECURSIVE FirstCategoryAsset(_)
FirstCategoryAsset(cats) ==
    IF cats = <<>> THEN GENERIC_UNKNOWN
    ELSE IF Join(lower(strip(Head(cats)))) \in DOMAIN GENERIC_CATEGORY_MAP
         THEN GENERIC_CATEGORY_MAP[Join(lower(strip(Head(cats))))]
         ELSE FirstCategoryAsset(Tail(cats))

ExpectedGeneric ==
    [cats \in {p.cats : p \in Programmes} |-> FirstCategoryAsset(cats)]

\* C10: a processed programme for whose title neither the cache nor the
\* lookup gave a URL has as its one icon the asset of its first category
\* that is in the table, or the 'unknown' asset.
C10_GenericFirstMatch ==
    InRun =>
        \A k \in Indices :
            (/\ NonSkipped0(k)
             /\ tree[k].icons # <<>>
             /\ title_of(doc0[k]) \in DOMAIN cache
             /\ cache[title_of(doc0[k])] = NULL) =>
                tree[k].icons = <<asset_path(ExpectedGeneric[doc0[k].cats])>>

\* categories " News ", "weather" gave generic_news.png, and "sports", a
\* category without text, "PARADE", "weather" gave generic_publicaccess.png
C10_Witness ==
    /\ InRun
    /\ \E k1, k2 \in Indices :
        /\ doc0[k1].cats = <<CatNewsPadded, CatWeather>>
        /\ tree[k1].icons = <<"assets/generic_news.png">>
        /\ doc0[k2].cats = <<CatSports, <<>>, CatParade, CatWeather>>
        /\ tree[k2].icons = <<"assets/generic_publicaccess.png">>

\* C11: while a run is under way the cache only grows: every key stays with
\* the value it had, and a step adds at most one key, the normalized title
\* of the programme under the cursor, which was absent.
C11_CacheGrowsOnly ==
    [][(pc \in Running /\ pc' \in Running \cup {"done"}) =>
        /\ \A t \in DOMAIN cache : t \in DOMAIN cache' /\ cache'[t] = cache[t]
        /\ cache' # cache =>
            /\ pc = "loop"
            /\ i <= Len(tree)
            /\ title_of(tree[i]) \notin DOMAIN cache
            /\ DOMAIN cache' = DOMAIN cache \cup {title_of(tree[i])}]_vars

\* a run that loaded a cache file with an entry and has added a key to it
C11_Witness ==
    /\ InRun
    /\ cache0 # EmptyCache
    /\ Cardinality(DOMAIN cache) = Cardinality(DOMAIN cache0) + 1
    /\ \A t \in DOMAIN cache0 : cache[t] = cache0[t]

\* C12: normalize_title is idempotent: normalizing a normalized text returns
\* it unchanged, also for a text that ends in repeated "new" markers.
C12_Idempotent == Len(norm) = 3 => norm[3] = norm[2]

\* C13: a failed refresh notification (a status other than 200/204 or an
\* exception of the call) does not reach the caller: from the refresh, main()
\* ends normally unless it is terminated from outside, no run is aborted,
\* and the files on disk stay as the final persist left them.
C13_RefreshFailureContained ==
    [][pc = "refresh" =>
        /\ pc' \in {"done", "killed"}
        /\ aborts' = aborts
        /\ disk' = disk
        /\ pc' = "done" =>
            /\ outputFile' = tree_write(tree')
            /\ cacheFile' = save_cache(cache')]_vars

\* a run that looked a title up ended normally after a refresh that failed
C13_Witness ==
    /\ pc = "done"
    /\ refreshes = <<"warning">>
    /\ lookups # <<>>
    /\ outputFile = tree_write(tree)
    /\ cacheFile = save_cache(cache)

\* the one programme of the end-to-end scenario
ScenarioDocument == <<Programme(TRUE, TitleParade, <<lower(CatParade)>>, <<>>)>>

\* the scenario: the document is the one programme, there is no cache file,
\* and the first run has completed with a lookup that returned none
ScenarioRan ==
    /\ pc = "done"
    /\ run = 1
    /\ inputFile = ScenarioDocument
    /\ cachefile_origin = NoFile
    /\ Len(lookups) = 1
    /\ lookup_result(lookups[1].response) = NULL

\* C14: whatever a lookup of the run returned, a URL, an empty string or
\* none, is in the cache under the normalized title; and in the scenario of
\* one programme "Local Parade Coverage" with category "parade", no cache
\* and a lookup that returns none, the cache and the cache file end as that
\* title mapped to null and the icon is assets/generic_publicaccess.png.
C14_LookupResultCached ==
    /\ InRun =>
        \A a \in 1..Len(lookups) :
            /\ lookups[a].title \in DOMAIN cache
            /\ cache[lookups[a].title] = lookup_result(lookups[a].response)
    /\ ScenarioRan =>
        /\ cache = ("Local Parade Coverage" :> NULL)
        /\ cacheFile = [exists |-> TRUE, data |-> ("Local Parade Coverage" :> NULL)]
        /\ tree[1].icons = <<"assets/generic_publicaccess.png">>
        /\ outputFile = [exists |-> TRUE, doc |-> tree]

\* the scenario has run, after a 404 of the server
C14_Witness ==
    /\ ScenarioRan
    /\ lookups[1].response.status = 404
    /\ "Local Parade Coverage" \in DOMAIN cacheFile.data
    /\ outputFile.doc[1].icons = <<"assets/generic_publicaccess.png">>

\* a value that is a URL: neither none nor the empty string
NonEmpty(v) == v # NULL /\ v # ""

\* what the cache the run loaded holds for a title or, for a title that was
\* not a key of it, what the lookup of the run returned
Specific(t) ==
    IF t \in DOMAIN cache0 THEN cache0[t]
    ELSE IF \E a \in 1..Len(lookups) : lookups[a].title = t
         THEN lookup_result(lookups[CHOOSE a \in 1..Len(lookups) : lookups[a].title = t].response)
         ELSE NULL

GenericAssets ==
    {asset_path(GENERIC_CATEGORY_MAP[c]) : c \in DOMAIN GENERIC_CATEGORY_MAP}
        \cup {asset_path(GENERIC_UNKNOWN)}

\* C15: a processed programme has one icon; it is the URL the cache held or
\* the lookup returned for its normalized title whenever that is a non-empty
\* URL, whatever its categories, and a generic or 'unknown' asset only when
\* neither gave a non-empty URL.
C15_SpecificBeforeGeneric ==
    InRun =>
        \A k \in Indices :
            (NonSkipped0(k) /\ tree[k].icons # <<>>) =>
                /\ Len(tree[k].icons) = 1
                /\ IF NonEmpty(Specific(title_of(doc0[k])))
                   THEN tree[k].icons = <<Specific(title_of(doc0[k]))>>
                   ELSE tree[k].icons[1] \in GenericAssets

\* the lookup for the programme with category "parade" returned the medium
\* image beside an empty original, and both programmes of the title have it
C15_Witness ==
    /\ InRun
    /\ Len(tree) = 2
    /\ NonSkipped0(1)
    /\ NonSkipped0(2)
    /\ doc0[1].cats = <<lower(CatParade)>>
    /\ Len(lookups) = 1
    /\ lookups[1].response.original = ""
    /\ tree[1].icons = <<"http://tvmaze/medium.jpg">>
    /\ tree[2].icons = <<"http://tvmaze/medium.jpg">>

\* the loop's cursor moves past a programme that has no title element, a
\* blank title or an icon
CursorPassesSkipped ==
    /\ pc = "loop"
    /\ i <= Len(tree)
    /\ i' = i + 1
    /\ \/ ~tree[i].has_title
       \/ strip(tree[i].title) = <<>>
       \/ tree[i].icons # <<>>

\* C16: passing a programme without a title element, with a blank title or
\* with an icon changes nothing but the cursor: no icon is added, no lookup
\* is called, the cache is not written, nothing is saved and the processed
\* count stays; so a completed run's processed count is the number of
\* programmes that had a non-blank title and no icon.
C16_SkippedLeavesNoTrace ==
    /\ [][CursorPassesSkipped =>
            /\ tree' = tree
            /\ cache' = cache
            /\ lookups' = lookups
            /\ calls' = calls
            /\ sleeps' = sleeps
            /\ processed' = processed
            /\ pc' = "loop"
            /\ disk' = disk]_vars
    /\ [](pc = "done" =>
            processed = Cardinality({k \in Indices : NonSkipped0(k)}))

\* a completed run over a programme with no title element and one with a
\* blank title: nothing was processed, looked up or cached, and only the
\* final save happened
C16_Witness ==
    /\ pc = "done"
    /\ Len(tree) = 2
    /\ ~tree[1].has_title
    /\ tree[2].has_title
    /\ strip(tree[2].title) = <<>>
    /\ tree[1].icons = <<>>
    /\ tree[2].icons = <<>>
    /\ processed = 0
    /\ lookups = <<>>
    /\ cache = cache0
    /\ cache_saves = 1

\* C17: a run started after a run that completed, from the output document
\* and the cache file that run wrote, calls no lookup, processes no
\* programme, adds no icon and no cache key, and the files it persists are
\* equal to the ones it found.
C17_SecondRunChangesNothing ==
    (prev = "done" /\ InRun) =>
        /\ output0.exists
        /\ cachefile0.exists
        /\ lookups = <<>>
        /\ sleeps = 0
        /\ processed = 0
        /\ tree = output0.doc
        /\ cache = cachefile0.data
        /\ outputFile = output0
        /\ cacheFile = cachefile0

\* the second run has completed and persisted, over a document in which
\* the first run had given an icon to a programme and cached its title
C17_Witness ==
    /\ prev = "done"
    /\ pc = "done"
    /\ cache_saves = 1
    /\ doc_writes = 1
    /\ cachefile0.data # EmptyCache
    /\ \E k \in Indices : inputFile[k].icons = <<>> /\ output0.doc[k].icons # <<>>

\* what one uninterrupted run on the original input and cache file ends with
Reference == Uninterrupted(<<>>, inputFile, load_cache(cachefile_origin))

\* C18: with a server that gives the same response for the same title every
\* time, a run that completes, whether the runs before it were terminated
\* between programmes, between the cache save and the document write, or
\* not at all, ends with the icons and the cache that one uninterrupted run
\* on the original input ends with, in memory and on disk.
C18_InterruptionKeepsResult ==
    pc = "done" =>
        /\ ~Reference.aborted
        /\ tree = Reference.doc
        /\ cache = Reference.cache
        /\ outputFile = [exists |-> TRUE, doc |-> Reference.doc]
        /\ cacheFile = [exists |-> TRUE, data |-> Reference.cache]

\* the first run was terminated after it had saved the cache with a new
\* key and before it wrote any document, and the second run has completed
\* with an icon from the server, without a lookup of its own
C18_Witness ==
    /\ pc = "done"
    /\ prev = "killed"
    /\ ~output0.exists
    /\ cachefile0.exists
    /\ DOMAIN cachefile0.data # DOMAIN cachefile_origin.data
    /\ lookups = <<>>
    /\ \E k \in Indices : tree[k].icons = <<"http://tvmaze/original.jpg">>

====
